---- MODULE Spec2Model ----
(***************************************************************************)
(* A model of the file-backed document store of exercise-15/database.ts    *)
(* (class Mutex, class Database) and of the earlier readers of             *)
(* exercise-13/14.                                                         *)
(*                                                                         *)
(* The log file is a sequence of newline-terminated lines.  A line is a    *)
(* tag character followed by a JSON text; a JSON text is the value it      *)
(* denotes together with the way it is written (fmt), so that              *)
(* JSON.parse / JSON.stringify are not the identity on texts.              *)
(* JavaScript runs the handlers on one thread: an action of the model is   *)
(* the code that runs between two awaits.                                  *)
(*                                                                         *)
(* Spec is the store under concurrent calls of find, insert and delete;    *)
(* SpecFn applies the functions of the store (the predicates, the sort and *)
(* projection of find, the log writer and reader) one at a time to inputs  *)
(* drawn from bounded sets.                                                *)
(***************************************************************************)
EXTENDS Integers, Sequences, FiniteSets, TLC

(***************************************************************************)
(* Bounds of the model.                                                    *)
(***************************************************************************)
\* number of calls (find, insert, delete) issued in one behaviour
MaxCalls == 3

\* length of the record lists handed to writeToFile and to find's options
MaxRecords == 3

\* length of the lists of $and and $or, and of the candidate list of $in,
\* in the inputs of the predicates taken alone
MaxChildren == 2

CallIds == 1..MaxCalls

(***************************************************************************)
(* JavaScript values: numbers, strings (sequences of characters) and       *)
(* undefined.  Every value carries its typeof.                             *)
(***************************************************************************)
Num(n) == [t |-> "number", v |-> n]

Str(s) == [t |-> "string", v |-> s]

Undefined == [t |-> "undefined", v |-> 0]

\* field === other (database.ts:76); typeof is compared first
StrictEq(a, b) == a.t = b.t /\ a.v = b.v

\* data[key]: a property the object lacks reads as undefined
Get(data, key) == IF key \in DOMAIN data THEN data[key] ELSE Undefined

(***************************************************************************)
(* Strings used by the records and the $text queries.                      *)
(***************************************************************************)
S_cat == <<"c", "a", "t">>

S_aCat == <<"a", " ", "C", "a", "t">>

S_cats == <<"c", "a", "t", "s">>

S_dog == <<"d", "o", "g">>

Digit(n) == CASE n = 0 -> "0" [] n = 1 -> "1" [] n = 2 -> "2" [] n = 3 -> "3"
              [] n = 4 -> "4" [] n = 5 -> "5" [] n = 6 -> "6" [] n = 7 -> "7"
              [] n = 8 -> "8" [] OTHER -> "9"

\* String(value), the coercion RegExp.prototype.test applies to its argument
\* (numbers of the model are single digits)
StringOf(val) ==
    CASE val.t = "string" -> val.v
      [] val.t = "number" -> <<Digit(val.v)>>
      [] OTHER -> <<"u", "n", "d", "e", "f", "i", "n", "e", "d">>

Lower(c) == CASE c = "C" -> "c" [] c = "A" -> "a" [] c = "T" -> "t" [] OTHER -> c

\* \w of a regular expression
IsWordChar(c) == c \notin {" ", "."}

\* \b at position p (between characters p and p+1 of text, 0 <= p <= Len)
WordBoundary(text, p) ==
    LET before == p >= 1 /\ IsWordChar(text[p])
        after  == p < Len(text) /\ IsWordChar(text[p + 1])
    IN before # after

\* a test without the flag "i"
RegExpTest_CaseSensitive(pattern, text) ==
    \E p \in 0..Len(text) :
        /\ p + Len(pattern) <= Len(text)
        /\ WordBoundary(text, p)
        /\ \A k \in 1..Len(pattern) : pattern[k] = "." \/ text[p + k] = pattern[k]
        /\ WordBoundary(text, p + Len(pattern))

\* new RegExp(`\\b${pattern}\\b`, "i").test(text): the characters of pattern
\* are read as a regular expression, in which "." stands for any character
\* and every other character of the model for itself
RegExpTest(pattern, text) ==
    \E p \in 0..Len(text) :
        /\ p + Len(pattern) <= Len(text)
        /\ WordBoundary(text, p)
        /\ \A k \in 1..Len(pattern) :
              pattern[k] = "." \/ Lower(text[p + k]) = Lower(pattern[k])
        /\ WordBoundary(text, p + Len(pattern))

(***************************************************************************)
(* The query language.  An object is a function from its keys (strings)    *)
(* to values; << >> is the object without keys.                            *)
(***************************************************************************)
EmptyObject == << >>

\* an operatorToPredicate in which the first key present decides alone
operatorToPredicate_KeyDecides(query, field) ==
    IF "$eq" \in DOMAIN query THEN StrictEq(field, query["$eq"])
    ELSE IF "$lt" \in DOMAIN query THEN field.t = "number" /\ field.v < query["$lt"].v
    ELSE IF "$gt" \in DOMAIN query THEN field.t = "number" /\ field.v > query["$gt"].v
    ELSE IF "$in" \in DOMAIN query
         THEN \E k \in 1..Len(query["$in"]) : StrictEq(field, query["$in"][k])
    ELSE FALSE

\* Database.operatorToPredicate
operatorToPredicate(query, field) ==
    IF "$eq" \in DOMAIN query THEN StrictEq(field, query["$eq"])
    ELSE IF "$lt" \in DOMAIN query /\ field.t = "number" THEN field.v < query["$lt"].v
    ELSE IF "$gt" \in DOMAIN query /\ field.t = "number" THEN field.v > query["$gt"].v
    ELSE IF "$in" \in DOMAIN query
         THEN \E k \in 1..Len(query["$in"]) : StrictEq(field, query["$in"][k])
    ELSE FALSE

\* Database.queryToPredicate
queryToPredicate(query, data) ==
    \A key \in DOMAIN query : operatorToPredicate(query[key], Get(data, key))

\* this.fullTextSearchFieldNames, set by the constructor
fullTextSearchFieldNames == <<"name">>

\* the $text branch of topLevelPredicate (database.ts:103-107) for a store
\* constructed with the full-text fields fieldNames
textPredicate(fieldNames, text, data) ==
    \E f \in 1..Len(fieldNames) : RegExpTest(text, StringOf(Get(data, fieldNames[f])))

RECURSIVE topLevelPredicate_OrFirst(_, _)
\* a topLevelPredicate that looks for $or before $and
topLevelPredicate_OrFirst(query, data) ==
    IF "$or" \in DOMAIN query
    THEN \E k \in 1..Len(query["$or"]) : topLevelPredicate_OrFirst(query["$or"][k], data)
    ELSE IF "$and" \in DOMAIN query
    THEN \A k \in 1..Len(query["$and"]) : topLevelPredicate_OrFirst(query["$and"][k], data)
    ELSE IF "$text" \in DOMAIN query
    THEN textPredicate(fullTextSearchFieldNames, query["$text"], data)
    ELSE queryToPredicate(query, data)

RECURSIVE topLevelPredicate(_, _)
\* Database.topLevelPredicate
topLevelPredicate(query, data) ==
    IF "$and" \in DOMAIN query
    THEN \A k \in 1..Len(query["$and"]) : topLevelPredicate(query["$and"][k], data)
    ELSE IF "$or" \in DOMAIN query
    THEN \E k \in 1..Len(query["$or"]) : topLevelPredicate(query["$or"][k], data)
    ELSE IF "$text" \in DOMAIN query
    THEN textPredicate(fullTextSearchFieldNames, query["$text"], data)
    ELSE queryToPredicate(query, data)

(***************************************************************************)
(* Query options: sort and projection (database.ts:156-178, and the same   *)
(* code in exercise 14).  options.sort and options.projection are          *)
(* sequences of <<key, value>> pairs, in the order Object.entries yields.  *)
(***************************************************************************)
\* the UTF-16 code unit of a character of the model
CharCode(c) ==
    CASE c = " " -> 32
      [] c \in {"0", "1", "2", "3", "4", "5", "6", "7", "8", "9"} ->
            48 + (CHOOSE n \in 0..9 : Digit(n) = c)
      [] c = "A" -> 65 [] c = "C" -> 67 [] c = "T" -> 84
      [] c = "a" -> 97 [] c = "c" -> 99 [] c = "d" -> 100 [] c = "e" -> 101
      [] c = "f" -> 102 [] c = "g" -> 103 [] c = "i" -> 105 [] c = "n" -> 110
      [] c = "o" -> 111 [] c = "s" -> 115 [] c = "t" -> 116 [] c = "u" -> 117
      [] OTHER -> 122

\* s > t for two strings: the order of their code units
StrGreater(s, t) ==
    \E k \in 1..Len(s) :
        /\ \A j \in 1..(k - 1) : j <= Len(t) /\ s[j] = t[j]
        /\ k > Len(t) \/ CharCode(s[k]) > CharCode(t[k])

\* a > b (database.ts:161). Two numbers or two strings are compared; with
\* undefined, or a number and a string that is not a numeral, a > b is false
Greater(a, b) ==
    IF a.t = "number" /\ b.t = "number" THEN a.v > b.v
    ELSE IF a.t = "string" /\ b.t = "string" THEN StrGreater(a.v, b.v)
    ELSE FALSE

\* the comparator of database.ts:160-162
compareFn(a, b, sKey, sOrder) ==
    IF Greater(Get(a, sKey), Get(b, sKey)) THEN 1 * sOrder ELSE (-1) * sOrder

\* results.sort(compareFn). compareFn never returns 0, so it is no consistent
\* comparator where two values are not ordered by >, and the order sort leaves
\* such elements in is implementation-defined: every permutation that keeps
\* x before y wherever compareFn puts x before y both ways round
sortOutcomes(results, sKey, sOrder) ==
    LET n == Len(results)
        Decided(x, y) == compareFn(x, y, sKey, sOrder) < 0 /\ compareFn(y, x, sKey, sOrder) > 0
        perms == {p \in [1..n -> 1..n] :
                    /\ \A i \in 1..n : \A j \in 1..n : i # j => p[i] # p[j]
                    /\ \A i \in 1..n : \A j \in 1..n :
                          i < j => ~Decided(results[p[j]], results[p[i]])}
    IN {[k \in 1..n |-> results[p[k]]] : p \in perms}

RECURSIVE sortPasses(_, _, _)
\* Object.entries(options.sort).forEach(...), from the k-th entry on, for
\* every outcome in the set outcomes
sortPasses(outcomes, sort, k) ==
    IF k > Len(sort) THEN outcomes
    ELSE sortPasses(UNION {sortOutcomes(r, sort[k][1], sort[k][2]) : r \in outcomes},
                    sort, k + 1)

\* a projection that copies every key of the mapping, whatever its flag
project_AllKeys(res, projection) ==
    [key \in {projection[j][1] : j \in 1..Len(projection)} |-> Get(res, key)]

\* newResult of database.ts:170-174 for one result
project(res, projection) ==
    [key \in {projection[j][1] : j \in {m \in 1..Len(projection) : projection[m][2]}}
        |-> Get(res, key)]

\* what find may return for the filtered results (database.ts:156-180)
findOutcomes(results, options) ==
    LET sorted == IF "sort" \in DOMAIN options
                  THEN sortPasses({results}, options["sort"], 1)
                  ELSE {results}
    IN IF "projection" \in DOMAIN options
       THEN {[k \in 1..Len(r) |-> project(r[k], options["projection"])] : r \in sorted}
       ELSE sorted

(***************************************************************************)
(* The log file.  JSON texts and lines.                                    *)
(*   fmt = "compact": the text JSON.stringify writes                       *)
(*   fmt = "spaced" : the same value written with insignificant whitespace *)
(*   fmt = "corrupt": a text JSON.parse rejects                            *)
(*   fmt = "blank"  : an empty or whitespace-only line (no tag, no text)   *)
(***************************************************************************)
\* JSON.stringify(data)
JSONstringify(data) == [fmt |-> "compact", data |-> data]

\* JSON.parse(text) returns a value iff the text is valid JSON
JSONvalid(text) == text.fmt \in {"compact", "spaced"}

\* JSON.parse(text), for a valid text
JSONparse(text) == text.data

\* the record every line of the model carries where it has no JSON text
NoData == [name |-> Str(<< >>), age |-> Num(0)]

\* an empty line
BlankLine == [tag |-> "", fmt |-> "blank", data |-> NoData]

\* `${tag}${text}`, one line of the file
LineOf(tag, text) == [tag |-> tag, fmt |-> text.fmt, data |-> text.data]

\* line.substr(1)
Substr1(line) == [fmt |-> line.fmt, data |-> line.data]

\* line.trim().length > 0
NonBlank(line) == line.fmt # "blank"

\* line.startsWith("E")
StartsWithE(line) == line.tag = "E"

\* a split that keeps the blank lines
SplitNonBlank_NoFilter(content) == content

\* fileContent.split("\n").filter(line => line.trim().length > 0): every line
\* of the file ends with "\n", so split yields the lines and one empty string
SplitNonBlank(content) == SelectSeq(content, NonBlank)

\* a read that parses the live lines only and skips the text of the others
readFromFileThrows_LiveOnly(content) ==
    \E k \in 1..Len(content) : StartsWithE(content[k]) /\ ~JSONvalid(Substr1(content[k]))

\* readFromFile throws (JSON.parse, database.ts:121) on a line it cannot parse
readFromFileThrows(content) ==
    \E k \in 1..Len(content) : NonBlank(content[k]) /\ ~JSONvalid(Substr1(content[k]))

\* Database.readFromFile, on a content it can parse
readFromFile(content) ==
    LET lines == SplitNonBlank(content)
    IN [k \in 1..Len(lines) |->
           [type |-> IF StartsWithE(lines[k]) THEN "E" ELSE "D",
            data |-> JSONparse(Substr1(lines[k]))]]

\* a rewrite that compacts the log: it writes the live records only
writeToFile_LiveOnly(records) ==
    LET live == SelectSeq(records, LAMBDA record : record.type = "E")
    IN [k \in 1..Len(live) |-> LineOf("E", JSONstringify(live[k].data))]

\* the string Database.writeToFile writes: records.map(...).join("\n") + "\n"
\* (no record: the string is "\n", one empty line)
writeToFile(records) ==
    IF Len(records) = 0
    THEN <<BlankLine>>
    ELSE [k \in 1..Len(records) |-> LineOf(records[k].type, JSONstringify(records[k].data))]

\* an insert that writes nothing
appendToFile_NoWrite(content, data) == content

\* fs.writeFileSync(filename, `E${JSON.stringify(data)}\n`, {flag: "a"})
appendToFile(content, data) == Append(content, LineOf("E", JSONstringify(data)))

\* a find that forgets to keep the live entries only
findResults_NoTagFilter(content, query) ==
    LET all      == readFromFile(content)
        contents == [k \in 1..Len(all) |-> all[k].data]
    IN SelectSeq(contents, LAMBDA data : topLevelPredicate(query, data))

\* find's pipeline after the read (database.ts:148-154), without options
findResults(content, query) ==
    LET live     == SelectSeq(readFromFile(content), LAMBDA record : record.type = "E")
        contents == [k \in 1..Len(live) |-> live[k].data]
    IN SelectSeq(contents, LAMBDA data : topLevelPredicate(query, data))

\* the earlier find (exercises 13 and 14) throws on a live line it cannot parse
find14Throws(content) ==
    \E k \in 1..Len(content) : StartsWithE(content[k]) /\ ~JSONvalid(Substr1(content[k]))

\* the earlier find's pipeline after the read (exercise-13/database.ts:69-76)
find14Results(content, query) ==
    LET lines    == SelectSeq(content, StartsWithE)
        contents == [k \in 1..Len(lines) |-> JSONparse(Substr1(lines[k]))]
    IN SelectSeq(contents, LAMBDA data : topLevelPredicate(query, data))

\* a delete that drops the matching records instead of retagging them
deleteNewRecords_Remove(recs, found) ==
    SelectSeq(recs, LAMBDA record :
        \A j \in 1..Len(found) : JSONstringify(found[j]) # JSONstringify(record.data))

\* a delete that tags every record it does not match as live
deleteNewRecords_ElseLive(recs, found) ==
    [k \in 1..Len(recs) |->
        [type |-> IF \E j \in 1..Len(found) :
                         JSONstringify(found[j]) = JSONstringify(recs[k].data)
                  THEN "D" ELSE "E",
         data |-> recs[k].data]]

\* delete's newRecords (database.ts:188-197): records is the read of line 186,
\* found the result of this.find(query) of line 188
deleteNewRecords(recs, found) ==
    LET queryResults == [k \in 1..Len(found) |-> JSONstringify(found[k])]
    IN [k \in 1..Len(recs) |->
           [type |-> IF \E j \in 1..Len(queryResults) :
                            queryResults[j] = JSONstringify(recs[k].data)
                     THEN "D" ELSE recs[k].type,
            data |-> recs[k].data]]

(***************************************************************************)
(* Inputs of the model: records, queries and the logs a run starts from.   *)
(***************************************************************************)
R_a3 == [name |-> Str(S_aCat), age |-> Num(3)]

R_b1 == [name |-> Str(S_cats), age |-> Num(1)]

R_c2 == [name |-> Str(S_dog), age |-> Num(2)]

R_d1 == [name |-> Str(S_dog), age |-> Num(1)]

QAll == EmptyObject

QAgeGt1 == [age |-> ("$gt" :> Num(1))]

QNameCats == [name |-> ("$eq" :> Str(S_cats))]

QTextCat == ("$text" :> S_cat)

QOr == ("$or" :> <<QNameCats, QTextCat>>)

InsertArgs == {R_b1, R_c2}

DeleteArgs == {QAgeGt1}

NoOptions == EmptyObject

SortAgeDescProjectName ==
    [sort |-> << <<"age", -1>> >>, projection |-> << <<"name", TRUE>>, <<"age", FALSE>> >>]

FindArgs == {[query |-> QAll, options |-> NoOptions],
             [query |-> QOr, options |-> NoOptions]}

Find14Args == {[query |-> QOr, options |-> NoOptions]}

LogEmpty == << >>

LogMixed == << LineOf("E", [fmt |-> "spaced", data |-> R_a3]),
               LineOf("D", [fmt |-> "compact", data |-> R_b1]),
               LineOf("E", [fmt |-> "compact", data |-> R_b1]) >>

LogCorrupt == << LineOf("E", [fmt |-> "compact", data |-> R_a3]),
                 LineOf("E", [fmt |-> "corrupt", data |-> NoData]) >>

LogCorruptD == << LineOf("E", [fmt |-> "compact", data |-> R_a3]),
                  LineOf("D", [fmt |-> "corrupt", data |-> NoData]) >>

InitLogs == {LogEmpty, LogMixed, LogCorrupt, LogCorruptD}

\* the data model's invariant of a log (spec, section 3)
WellFormed(content) ==
    \A k \in 1..Len(content) :
        \/ content[k].fmt = "blank"
        \/ content[k].tag \in {"E", "D"} /\ JSONvalid(Substr1(content[k]))

(***************************************************************************)
(* State.                                                                  *)
(*   file        the content of the log file                               *)
(*   readable, writable   whether fs.readFile / fs.writeFileSync on the    *)
(*               file succeed or throw (the file's permissions; they do    *)
(*               not change during a run)                                  *)
(*   ncalls      number of calls issued; calls are numbered in call order  *)
(*   op, arg, pc the operation, argument and position of each call         *)
(*   err         why a call failed                                         *)
(*   _locks, willLock, ticket   the Mutex: willLock[n] is TRUE once the    *)
(*               unlockNext of the n-th lock() call ran; ticket[i] is the  *)
(*               number of call i's lock() call                            *)
(*   records     delete's local variable records                           *)
(*   result      what a find call returned                                 *)
(*   reads       the number of times each call has called readFromFile     *)
(* History, read by the properties only:                                   *)
(*   file0       the log at the start                                      *)
(*   pre         the content of the file a call saw in its last read: the  *)
(*               content insert and delete wrote over, the content find    *)
(*               computed its result from                                  *)
(*   locksAtCall the value of _locks when a call called lock()             *)
(*   fresh       records inserted by a completed insert, no delete having  *)
(*               written since; freshAtCall: its value when a find started *)
(*   tombs       records tombstoned by a completed delete and not inserted *)
(*               again; tombAtCall: its value when a find started          *)
(*   heldAtCall  the call inside the gate when a find started (0: none)    *)
(***************************************************************************)
VARIABLES file, readable, writable, ncalls, op, arg, pc, err, _locks, willLock, ticket, records,
          result, reads, file0, pre, locksAtCall, fresh, freshAtCall, tombs, tombAtCall,
          heldAtCall

vars == <<file, readable, writable, ncalls, op, arg, pc, err, _locks, willLock, ticket, records,
          result, reads, file0, pre, locksAtCall, fresh, freshAtCall, tombs, tombAtCall,
          heldAtCall>>

fileSystem == <<readable, writable>>

mutexVars == <<_locks, willLock, ticket>>

historyVars == <<file0, pre, locksAtCall, fresh, freshAtCall, tombs, tombAtCall, heldAtCall>>

Init ==
    /\ file \in InitLogs
    /\ file0 = file
    /\ readable \in BOOLEAN
    /\ writable \in BOOLEAN
    /\ ncalls = 0
    /\ op = [i \in CallIds |-> "none"]
    /\ arg = [i \in CallIds |-> EmptyObject]
    /\ pc = [i \in CallIds |-> "idle"]
    /\ err = [i \in CallIds |-> "none"]
    /\ _locks = 0
    /\ willLock = << >>
    /\ ticket = [i \in CallIds |-> 0]
    /\ records = [i \in CallIds |-> << >>]
    /\ result = [i \in CallIds |-> << >>]
    /\ reads = [i \in CallIds |-> 0]
    /\ pre = [i \in CallIds |-> << >>]
    /\ locksAtCall = [i \in CallIds |-> 0]
    /\ fresh = {}
    /\ freshAtCall = [i \in CallIds |-> {}]
    /\ tombs = {}
    /\ tombAtCall = [i \in CallIds |-> {}]
    /\ heldAtCall = [i \in CallIds |-> 0]

(***************************************************************************)
(* class Mutex                                                             *)
(***************************************************************************)
\* a call is inside its gated section: await this.mutex.lock() has returned
\* and unlock() has not been called
InGate(i) == pc[i] \in {"locked", "finding", "written"}

\* Mutex.isLocked
isLocked == _locks > 0

RECURSIVE lockingResolved(_)
\* this._locking as the n-th lock() call leaves it (database.ts:56):
\* this._locking.then(() => willLock) is resolved once the previous
\* this._locking is and the call's own willLock is; Promise.resolve() at first
lockingResolved(n) ==
    IF n = 0 THEN TRUE ELSE lockingResolved(n - 1) /\ willLock[n]

\* a lock() whose willUnlock does not wait for this._locking
willUnlockResolved_Immediately(n) == TRUE

\* a lock() without a queue: willUnlock waits until nobody is inside the gate
willUnlockResolved_NoQueue(n) == \A i \in CallIds : ~InGate(i)

\* willUnlock of the n-th lock() call (database.ts:54):
\* this._locking.then(() => unlockNext), this._locking being the previous call's
willUnlockResolved(n) == lockingResolved(n - 1)

\* Mutex.lock, called by call i
lock(i) ==
    /\ _locks' = _locks + 1
    /\ willLock' = Append(willLock, FALSE)
    /\ ticket' = [ticket EXCEPT ![i] = Len(willLock) + 1]

\* an unlockNext that resolves willLock and leaves the counter as it is
unlockNext_NoDecrement(i) ==
    /\ willLock' = [willLock EXCEPT ![ticket[i]] = TRUE]
    /\ UNCHANGED <<_locks, ticket>>

\* unlockNext of call i's lock() call (database.ts:47-51)
unlockNext(i) ==
    /\ _locks' = _locks - 1
    /\ willLock' = [willLock EXCEPT ![ticket[i]] = TRUE]
    /\ UNCHANGED ticket

(***************************************************************************)
(* class Database: the calls.  Each action is the code between two awaits. *)
(***************************************************************************)
Mutations == {"insert", "delete"}

Issued == 1..ncalls

\* the set of elements of a sequence
Range(seq) == {seq[k] : k \in 1..Len(seq)}

\* a call throws: its promise rejects and nothing of it runs any more
Throw(i, e) ==
    /\ pc' = [pc EXCEPT ![i] = "failed"]
    /\ err' = [err EXCEPT ![i] = e]

\* insert(data) up to its first await (database.ts:205)
insert(data) ==
    /\ ncalls < MaxCalls
    /\ LET i == ncalls + 1
       IN /\ ncalls' = i
          /\ op' = [op EXCEPT ![i] = "insert"]
          /\ arg' = [arg EXCEPT ![i] = data]
          /\ pc' = [pc EXCEPT ![i] = "waiting"]
          /\ lock(i)
          /\ locksAtCall' = [locksAtCall EXCEPT ![i] = _locks]
    /\ UNCHANGED <<file, fileSystem, err, records, result, reads,
                   file0, pre, fresh, freshAtCall, tombs, tombAtCall, heldAtCall>>

\* delete(query) up to its first await (database.ts:184)
delete(query) ==
    /\ ncalls < MaxCalls
    /\ LET i == ncalls + 1
       IN /\ ncalls' = i
          /\ op' = [op EXCEPT ![i] = "delete"]
          /\ arg' = [arg EXCEPT ![i] = query]
          /\ pc' = [pc EXCEPT ![i] = "waiting"]
          /\ lock(i)
          /\ locksAtCall' = [locksAtCall EXCEPT ![i] = _locks]
    /\ UNCHANGED <<file, fileSystem, err, records, result, reads,
                   file0, pre, fresh, freshAtCall, tombs, tombAtCall, heldAtCall>>

\* await this.mutex.lock() returns in insert or delete, which calls
\* readFromFile (database.ts:184-186, 205-207): the read is in flight
lockGranted(i) ==
    /\ op[i] \in Mutations
    /\ pc[i] = "waiting"
    /\ willUnlockResolved(ticket[i])
    /\ pc' = [pc EXCEPT ![i] = "locked"]
    /\ reads' = [reads EXCEPT ![i] = @ + 1]
    /\ UNCHANGED <<file, fileSystem, ncalls, op, arg, err, mutexVars, records, result, historyVars>>

\* insert from the end of its read to its last await (database.ts:207-214)
insertAfterRead(i) ==
    /\ op[i] = "insert"
    /\ pc[i] = "locked"
    /\ IF ~readable \/ readFromFileThrows(file) \/ ~writable
         THEN /\ Throw(i, IF ~readable THEN "ReadError"
                          ELSE IF readFromFileThrows(file) THEN "ParseError"
                          ELSE "WriteError")
              /\ UNCHANGED <<file, historyVars>>
         ELSE /\ file' = appendToFile(file, arg[i])
              /\ pc' = [pc EXCEPT ![i] = "written"]
              /\ pre' = [pre EXCEPT ![i] = file]
              /\ tombs' = tombs \ {arg[i]}
              /\ tombAtCall' = [f \in CallIds |-> tombAtCall[f] \ {arg[i]}]
              /\ UNCHANGED <<err, file0, locksAtCall, fresh, freshAtCall, heldAtCall>>
    /\ UNCHANGED <<fileSystem, ncalls, op, arg, mutexVars, records, result, reads>>

\* delete from the end of its read to the read that this.find(query) starts
\* (database.ts:186-188, 148)
deleteAfterRead(i) ==
    /\ op[i] = "delete"
    /\ pc[i] = "locked"
    /\ IF ~readable \/ readFromFileThrows(file)
         THEN /\ Throw(i, IF ~readable THEN "ReadError" ELSE "ParseError")
              /\ UNCHANGED <<records, reads>>
         ELSE /\ records' = [records EXCEPT ![i] = readFromFile(file)]
              /\ pc' = [pc EXCEPT ![i] = "finding"]
              /\ reads' = [reads EXCEPT ![i] = @ + 1]
              /\ UNCHANGED err
    /\ UNCHANGED <<file, fileSystem, ncalls, op, arg, mutexVars, result, historyVars>>

\* delete from the end of find's read to its last await (database.ts:188-199)
deleteAfterFind(i) ==
    /\ op[i] = "delete"
    /\ pc[i] = "finding"
    /\ IF ~readable \/ readFromFileThrows(file) \/ ~writable
         THEN /\ Throw(i, IF ~readable THEN "ReadError"
                          ELSE IF readFromFileThrows(file) THEN "ParseError"
                          ELSE "WriteError")
              /\ UNCHANGED <<file, historyVars>>
         ELSE /\ file' = writeToFile(deleteNewRecords(records[i], findResults(file, arg[i])))
              /\ pc' = [pc EXCEPT ![i] = "written"]
              /\ pre' = [pre EXCEPT ![i] = file]
              /\ fresh' = {}
              /\ freshAtCall' = [f \in CallIds |-> {}]
              /\ UNCHANGED <<err, file0, locksAtCall, tombs, tombAtCall, heldAtCall>>
    /\ UNCHANGED <<fileSystem, ncalls, op, arg, mutexVars, records, result, reads>>

\* the records of the live entries of a log that a query selects
Matched(content, query) ==
    {content[k].data : k \in {j \in 1..Len(content) :
        /\ content[j].tag = "E"
        /\ topLevelPredicate(query, content[j].data)}}

\* unlock() and the return of insert or delete (database.ts:201, 218)
unlock(i) ==
    /\ op[i] \in Mutations
    /\ pc[i] = "written"
    /\ unlockNext(i)
    /\ pc' = [pc EXCEPT ![i] = "done"]
    /\ fresh' = IF op[i] = "insert" THEN fresh \cup {arg[i]} ELSE fresh
    /\ tombs' = IF op[i] = "delete" THEN tombs \cup Matched(pre[i], arg[i]) ELSE tombs
    /\ UNCHANGED <<file, fileSystem, ncalls, op, arg, err, records, result, reads,
                   file0, pre, locksAtCall, freshAtCall, tombAtCall, heldAtCall>>

\* a find that queues for the mutation gate
find_Gated(query, options) ==
    /\ ncalls < MaxCalls
    /\ LET i == ncalls + 1
       IN /\ ncalls' = i
          /\ op' = [op EXCEPT ![i] = "find"]
          /\ arg' = [arg EXCEPT ![i] = [query |-> query, options |-> options]]
          /\ pc' = [pc EXCEPT ![i] = "waiting"]
          /\ lock(i)
    /\ UNCHANGED <<file, fileSystem, err, records, result, reads, historyVars>>

\* a find call starts: readFile is in flight
startFind(kind, query, options) ==
    /\ ncalls < MaxCalls
    /\ LET i == ncalls + 1
       IN /\ ncalls' = i
          /\ op' = [op EXCEPT ![i] = kind]
          /\ arg' = [arg EXCEPT ![i] = [query |-> query, options |-> options]]
          /\ pc' = [pc EXCEPT ![i] = "reading"]
          /\ reads' = [reads EXCEPT ![i] = @ + 1]
          /\ freshAtCall' = [freshAtCall EXCEPT ![i] = fresh]
          /\ tombAtCall' = [tombAtCall EXCEPT ![i] = tombs]
          /\ heldAtCall' = [heldAtCall EXCEPT ![i] =
                 IF \E h \in Issued : InGate(h)
                 THEN CHOOSE h \in Issued : InGate(h) ELSE 0]
    /\ UNCHANGED <<file, fileSystem, err, mutexVars, records, result,
                   file0, pre, locksAtCall, fresh, tombs>>

\* find(query, options) up to its await (database.ts:148)
find(query, options) == startFind("find", query, options)

\* the earlier find(query, options) up to its await (exercise-13/database.ts:68)
find14(query, options) == startFind("find14", query, options)

\* a find call ends: it throws, or returns one of the outcomes
endFind(i, throws, outcomes) ==
    /\ pc[i] = "reading"
    /\ IF ~readable \/ throws
         THEN /\ Throw(i, IF ~readable THEN "ReadError" ELSE "ParseError")
              /\ UNCHANGED <<result, pre>>
         ELSE /\ \E r \in outcomes : result' = [result EXCEPT ![i] = r]
              /\ pc' = [pc EXCEPT ![i] = "done"]
              /\ pre' = [pre EXCEPT ![i] = file]
              /\ UNCHANGED err
    /\ UNCHANGED <<file, fileSystem, ncalls, op, arg, mutexVars, records, reads,
                   file0, locksAtCall, fresh, freshAtCall, tombs, tombAtCall, heldAtCall>>

\* find from the end of its read to its return (database.ts:148-180)
findAfterRead(i) ==
    /\ op[i] = "find"
    /\ endFind(i, readFromFileThrows(file),
               findOutcomes(findResults(file, arg[i].query), arg[i].options))

\* the earlier find from the end of its read to its return
\* (exercise-13/database.ts:68-76, and lines 86-120 of exercise 14)
find14AfterRead(i) ==
    /\ op[i] = "find14"
    /\ endFind(i, find14Throws(file),
               findOutcomes(find14Results(file, arg[i].query), arg[i].options))

Next ==
    \/ \E data \in InsertArgs : insert(data)
    \/ \E query \in DeleteArgs : delete(query)
    \/ \E a \in FindArgs : find(a.query, a.options)
    \/ \E a \in Find14Args : find14(a.query, a.options)
    \/ \E i \in CallIds : lockGranted(i)
    \/ \E i \in CallIds : insertAfterRead(i)
    \/ \E i \in CallIds : deleteAfterRead(i)
    \/ \E i \in CallIds : deleteAfterFind(i)
    \/ \E i \in CallIds : unlock(i)
    \/ \E i \in CallIds : findAfterRead(i)
    \/ \E i \in CallIds : find14AfterRead(i)

Spec == Init /\ [][Next]_vars

(***************************************************************************)
(* The functions of the store taken one at a time.  A behaviour of SpecFn  *)
(* is one application: op[1] names the function, arg[1] is its input,      *)
(* drawn from a bounded set, and result[1] (for the log writer and reader: *)
(* file and records[1]) is its output.                                     *)
(***************************************************************************)
\* the sequences of at most n elements of S
SeqsUpTo(S, n) == UNION {[1..k -> S] : k \in 0..n}

FnRecords == {R_a3, R_b1, R_c2, R_d1}

\* DatabaseRecord<T>[] (database.ts:22-25)
DatabaseRecords == SeqsUpTo([type : {"E", "D"}, data : FnRecords], MaxRecords)

\* the state in which function o is about to be applied to input a
InitOf(o, a) ==
    /\ file = << >>
    /\ file0 = file
    /\ readable = TRUE
    /\ writable = TRUE
    /\ ncalls = 1
    /\ op = [i \in CallIds |-> IF i = 1 THEN o ELSE "none"]
    /\ arg = [i \in CallIds |-> IF i = 1 THEN a ELSE EmptyObject]
    /\ pc = [i \in CallIds |-> IF i = 1 THEN "called" ELSE "idle"]
    /\ err = [i \in CallIds |-> "none"]
    /\ _locks = 0
    /\ willLock = << >>
    /\ ticket = [i \in CallIds |-> 0]
    /\ records = [i \in CallIds |-> << >>]
    /\ result = [i \in CallIds |-> << >>]
    /\ reads = [i \in CallIds |-> 0]
    /\ pre = [i \in CallIds |-> << >>]
    /\ locksAtCall = [i \in CallIds |-> 0]
    /\ fresh = {}
    /\ freshAtCall = [i \in CallIds |-> {}]
    /\ tombs = {}
    /\ tombAtCall = [i \in CallIds |-> {}]
    /\ heldAtCall = [i \in CallIds |-> 0]

\* values of the parameter options of find (database.ts:17-20, 146)
SortAgeAsc == ("sort" :> << <<"age", 1>> >>)

SortNameThenAge == ("sort" :> << <<"name", 1>>, <<"age", 1>> >>)

ProjectName == ("projection" :> << <<"name", TRUE>>, <<"age", FALSE>> >>)

ProjectNothing == ("projection" :> << >>)

ProjectNotes == ("projection" :> << <<"notes", TRUE>>, <<"age", TRUE>> >>)

SortNameProjectAge == ("sort" :> << <<"name", -1>> >>) @@ ("projection" :> << <<"age", TRUE>> >>)

FnOptions == {NoOptions, SortAgeAsc, SortNameThenAge,
              ProjectName, ProjectNothing, ProjectNotes, SortNameProjectAge}

\* the filtered results that find sorts and projects (database.ts:154)
FnResults == SeqsUpTo(FnRecords, MaxRecords)

\* values of the parameter query of topLevelPredicate (database.ts:11-15)
QNameAndAge == [name |-> ("$eq" :> Str(S_dog)), age |-> ("$gt" :> Num(1))]

FnLeaves == {QAll, QAgeGt1, QNameCats, QNameAndAge, QTextCat}

FnChildren == FnLeaves \cup {("$and" :> << >>), ("$or" :> << >>), QOr}

\* nodes that carry more than one recognized key
FnMixedNodes(children) ==
    {("$and" :> children) @@ ("$or" :> <<QAll>>),
     ("$and" :> <<QAll>>) @@ ("$or" :> children),
     ("$or" :> children) @@ ("$text" :> S_cat),
     ("$text" :> S_dog) @@ ("$and" :> children),
     ("$text" :> S_cat) @@ ("age" :> ("$gt" :> Num(1)))}

FnTrees ==
    FnChildren \cup UNION {{("$and" :> cs), ("$or" :> cs)} \cup FnMixedNodes(cs) :
                           cs \in SeqsUpTo(FnChildren, MaxChildren)}

\* field values: numbers, strings, and the value of a missing field
FnFields == {Num(1), Num(2), Num(3), Str(S_cats), Str(S_dog), Str(<<"1">>), Undefined}

\* the objects that have key with one of vals, or do not have it
OptionalKey(key, vals) == {EmptyObject} \cup {key :> v : v \in vals}

\* values of the parameter query of operatorToPredicate (database.ts:3-7),
\* with none, one or several of the keys $eq, $lt, $gt, $in and other keys
FnOperators ==
    {e @@ l @@ g @@ n @@ x :
        e \in OptionalKey("$eq", {Num(1), Str(S_cats)}),
        l \in OptionalKey("$lt", {Num(2)}),
        g \in OptionalKey("$gt", {Num(1)}),
        n \in OptionalKey("$in", SeqsUpTo({Num(3), Str(S_dog)}, MaxChildren)),
        x \in OptionalKey("$ne", {Num(1)})}

\* values of the constructor's parameter fullTextSearchFieldNames
FnFieldNames == {<< >>, <<"name">>, <<"notes">>, <<"name", "notes">>}

S_CAT == <<"C", "A", "T">>

S_cDotT == <<"c", ".", "t">>

S_aSpaceCat == <<"a", " ", "c", "a", "t">>

S_undefined == <<"u", "n", "d", "e", "f", "i", "n", "e", "d">>

\* values of query.$text
FnTexts == {S_cat, S_CAT, S_cDotT, S_cats, S_aSpaceCat, S_undefined}

\* records with and without the full-text fields
FnTextRecords ==
    {R_a3, R_b1,
     [name |-> Str(S_dog), notes |-> Str(S_aCat)],
     [name |-> Str(S_aCat), notes |-> Str(S_cats)],
     [notes |-> Str(S_cat), age |-> Num(1)],
     [age |-> Num(1)]}

InitFn ==
    \/ \E recs \in DatabaseRecords : InitOf("writeToFile", recs)
    \/ \E n \in FnFieldNames : \E t \in FnTexts : \E d \in FnTextRecords :
           InitOf("$text", [fieldNames |-> n, text |-> t, data |-> d])
    \/ \E q \in FnOperators : \E f \in FnFields :
           InitOf("operatorToPredicate", [query |-> q, field |-> f])
    \/ \E q \in FnTrees : \E d \in FnRecords :
           InitOf("topLevelPredicate", [query |-> q, data |-> d])
    \/ \E rs \in FnResults : \E o \in FnOptions :
           InitOf("options", [results |-> rs, options |-> o])

\* what no application changes
fnFrame == <<fileSystem, ncalls, op, arg, mutexVars, historyVars>>

\* Database.writeToFile(arg[1]) (database.ts:125-132)
callWriteToFile ==
    /\ op[1] = "writeToFile"
    /\ pc[1] = "called"
    /\ file' = writeToFile(arg[1])
    /\ pc' = [pc EXCEPT ![1] = "written"]
    /\ UNCHANGED <<err, records, result, reads, fnFrame>>

\* Database.readFromFile() of the file just written (database.ts:114-123)
callReadFromFile ==
    /\ op[1] = "writeToFile"
    /\ pc[1] = "written"
    /\ reads' = [reads EXCEPT ![1] = @ + 1]
    /\ IF readFromFileThrows(file)
         THEN /\ Throw(1, "ParseError")
              /\ UNCHANGED records
         ELSE /\ records' = [records EXCEPT ![1] = readFromFile(file)]
              /\ pc' = [pc EXCEPT ![1] = "done"]
              /\ UNCHANGED err
    /\ UNCHANGED <<file, result, fnFrame>>

\* the function returns value
return(value) ==
    /\ pc[1] = "called"
    /\ result' = [result EXCEPT ![1] = value]
    /\ pc' = [pc EXCEPT ![1] = "done"]
    /\ UNCHANGED <<file, err, records, reads, fnFrame>>

\* find from its filtered results to its return (database.ts:156-180)
callFindOptions ==
    /\ op[1] = "options"
    /\ \E r \in findOutcomes(arg[1].results, arg[1].options) : return(r)

\* this.topLevelPredicate(query)(data) (database.ts:96-112)
callTopLevelPredicate ==
    /\ op[1] = "topLevelPredicate"
    /\ return(topLevelPredicate(arg[1].query, arg[1].data))

\* this.operatorToPredicate(query)(field) (database.ts:73-86)
callOperatorToPredicate ==
    /\ op[1] = "operatorToPredicate"
    /\ return(operatorToPredicate(arg[1].query, arg[1].field))

\* topLevelPredicate({$text: text})(data) of a store constructed with
\* fieldNames (database.ts:102-107)
callTextPredicate ==
    /\ op[1] = "$text"
    /\ return(textPredicate(arg[1].fieldNames, arg[1].text, arg[1].data))

NextFn ==
    \/ callTextPredicate
    \/ callOperatorToPredicate
    \/ callWriteToFile
    \/ callReadFromFile
    \/ callFindOptions
    \/ callTopLevelPredicate

SpecFn == InitFn /\ [][NextFn]_vars

(***************************************************************************)
(* Properties.                                                             *)
(***************************************************************************)
\* the calls of insert and delete issued so far
MutatingCalls == {i \in Issued : op[i] \in Mutations}

\* await this.mutex.lock() has returned in call i
Entered(i) == pc[i] \notin {"idle", "waiting"}

\* C1: mutual exclusion of mutations. At no time are two insert/delete calls
\* both between the return of await this.mutex.lock() and their unlock().
C1_MutualExclusion ==
    \A i \in MutatingCalls : \A j \in MutatingCalls :
        (InGate(i) /\ InGate(j)) => i = j

\* a call is inside the gate while another one, issued meanwhile, waits for it
C1_Witness ==
    \E i \in MutatingCalls : \E j \in MutatingCalls :
        InGate(i) /\ pc[j] = "waiting" /\ locksAtCall[j] > 0

\* C2: FIFO gate order. If call a called Mutex.lock() before call b, then b is
\* not inside (or past) its gated section before a has entered its own.
C2_FifoGateOrder ==
    \A a \in MutatingCalls : \A b \in MutatingCalls :
        (ticket[a] < ticket[b] /\ Entered(b)) => Entered(a)

\* b called lock() while the gate was taken, and entered after a
C2_Witness ==
    \E a \in MutatingCalls : \E b \in MutatingCalls :
        ticket[a] < ticket[b] /\ locksAtCall[b] > 0 /\ pc[a] = "done" /\ InGate(b)

\* C3: every insert and delete returns or fails, also behind a call whose read
\* or write failed; the gate is released to the next queued caller. A call that
\* has returned or failed runs no more code, so the gate is released to the
\* calls behind it only if it has released it by then.
C3_GateReleasedByTerminatedCalls ==
    \A i \in MutatingCalls : \A j \in MutatingCalls :
        (pc[i] = "waiting" /\ ticket[j] < ticket[i] /\ pc[j] \in {"done", "failed"})
            => willLock[ticket[j]]

\* one call of insert or delete applied to a log, alone and to completion
SeqApply(content, o, a) ==
    IF o = "insert" THEN appendToFile(content, a)
    ELSE IF o = "delete"
         THEN writeToFile(deleteNewRecords(readFromFile(content), findResults(content, a)))
    ELSE content

RECURSIVE SeqRun(_)
\* the first n calls applied one at a time, in the order they were called
SeqRun(n) ==
    IF n = 0 THEN file0 ELSE SeqApply(SeqRun(n - 1), op[n], arg[n])

\* C4: serializability of mutations. Once all insert and delete calls issued
\* on a well-formed log have completed, the log is the one obtained by applying
\* them one at a time in call order.
C4_Serializable ==
    (WellFormed(file0) /\ \A i \in MutatingCalls : pc[i] = "done")
        => file = SeqRun(ncalls)

\* an insert and a delete, one of them called while the other had the gate,
\* have both completed
C4_Witness ==
    \E i \in MutatingCalls : \E d \in MutatingCalls :
        /\ op[i] = "insert" /\ op[d] = "delete"
        /\ locksAtCall[i] + locksAtCall[d] > 0
        /\ \A m \in MutatingCalls : pc[m] = "done"
        /\ file # file0

\* the completed find calls with the query {} and no options
FindAllDone ==
    {f \in Issued : /\ op[f] = "find" /\ pc[f] = "done"
                    /\ DOMAIN arg[f].query = {} /\ DOMAIN arg[f].options = {}}

\* C5: read-your-writes for insert. A find({}) called after insert(r) has
\* completed, no delete having written in between, returns r.
C5_ReadYourWrites ==
    \A f \in FindAllDone : freshAtCall[f] \subseteq Range(result[f])

\* a find({}) has completed that was called after an insert had completed
C5_Witness ==
    \E f \in FindAllDone : freshAtCall[f] # {} /\ Len(pre[f]) > 1

\* the raw read of the log shows record r, and with tag D only
TombstonedInLog(r) ==
    /\ ~readFromFileThrows(file)
    /\ LET raw == readFromFile(file)
       IN /\ \E k \in 1..Len(raw) : raw[k].data = r /\ raw[k].type = "D"
          /\ \A k \in 1..Len(raw) : raw[k].data = r => raw[k].type = "D"

\* C6: tombstoning by delete. After delete(p) has completed, a find({}) returns
\* no record that matched p at the time of the delete (none having been
\* inserted again), and a raw read of the log still shows each of them, tagged D.
C6_Tombstoning ==
    /\ \A f \in FindAllDone : tombAtCall[f] \cap Range(result[f]) = {}
    /\ \A r \in tombs : TombstonedInLog(r)

\* a find({}) called after a delete that tombstoned a record has completed,
\* and the log still shows the record
C6_Witness ==
    \E f \in FindAllDone : \E r \in tombAtCall[f] : r \in tombs /\ TombstonedInLog(r)

\* the delete calls that have written the log and not yet released the gate
DeleteWritten == {d \in Issued : op[d] = "delete" /\ pc[d] = "written"}

\* line k of the log before delete d is line k after it, but for the tag of a
\* live line that query p matches
LineKept(before, after, p) ==
    \/ after = before
    \/ /\ before.tag = "E"
       /\ topLevelPredicate(p, before.data)
       /\ after = [before EXCEPT !.tag = "D"]

\* C7 as stated: delete(p) changes only the tag of the live lines whose record
\* matches p; every other line, the number of lines and their order are kept.
C7_FrameVerbatim ==
    \A d \in DeleteWritten :
        /\ Len(file) = Len(pre[d])
        /\ \A k \in 1..Len(pre[d]) : LineKept(pre[d][k], file[k], arg[d])

\* C7, amended: read through readFromFile, the log after delete(p) has the
\* entries it had before, in the same order and with the same records; a live
\* entry whose record matches p is tagged D, every other entry keeps its tag.
C7_FrameOfEntries ==
    \A d \in DeleteWritten :
        LET before == readFromFile(pre[d])
            after  == readFromFile(file)
        IN /\ Len(after) = Len(before)
           /\ \A k \in 1..Len(before) :
                /\ after[k].data = before[k].data
                /\ after[k].type =
                     IF before[k].type = "E" /\ topLevelPredicate(arg[d], before[k].data)
                     THEN "D" ELSE before[k].type

\* a delete has rewritten a log that held a live entry it matches, a live
\* entry it does not match and a tombstoned entry
C7_Witness ==
    \E d \in DeleteWritten :
        LET before == readFromFile(pre[d])
        IN /\ \E k \in 1..Len(before) :
                before[k].type = "E" /\ topLevelPredicate(arg[d], before[k].data)
           /\ \E k \in 1..Len(before) :
                before[k].type = "E" /\ ~topLevelPredicate(arg[d], before[k].data)
           /\ \E k \in 1..Len(before) : before[k].type = "D"

RECURSIVE LiveMatches(_, _)
\* the records of the lines tagged E that query q selects, in log order
LiveMatches(content, q) ==
    IF content = << >> THEN << >>
    ELSE LET line == Head(content)
             rest == LiveMatches(Tail(content), q)
         IN IF line.tag = "E" /\ topLevelPredicate(q, line.data)
            THEN <<line.data>> \o rest
            ELSE rest

\* the completed find calls
FindDone == {f \in Issued : op[f] = "find" /\ pc[f] = "done"}

\* the completed find calls without options, of either version of find
FindPlainDone ==
    {f \in Issued : /\ op[f] \in {"find", "find14"} /\ pc[f] = "done"
                    /\ DOMAIN arg[f].options = {}}

\* C8: find(q) without options returns exactly the records of the entries
\* tagged E that the predicate of q selects, in log order; never a record of
\* an entry tagged D.
C8_FindResult ==
    \A f \in FindPlainDone : result[f] = LiveMatches(pre[f], arg[f].query)

\* a find has returned some but not all live records of a log that also
\* holds a tombstoned entry
C8_Witness ==
    \E f \in FindPlainDone :
        /\ Len(result[f]) > 0
        /\ Len(result[f]) < Len(LiveMatches(pre[f], QAll))
        /\ \E k \in 1..Len(pre[f]) : pre[f][k].tag = "D"

\* C9: find does not take part in the gate. A find call takes no ticket of the
\* Mutex, never waits for it, and its read can complete whatever the state of
\* the gate.
C9_FindNotGated ==
    \A f \in Issued :
        op[f] = "find" =>
            /\ ticket[f] = 0
            /\ pc[f] # "waiting"
            /\ pc[f] = "reading" => ENABLED findAfterRead(f)

\* a find started and completed while one call held the gate and another
\* one waited for it
C9_Witness ==
    \E f \in FindDone :
        /\ heldAtCall[f] # 0
        /\ InGate(heldAtCall[f])
        /\ \E w \in MutatingCalls : pc[w] = "waiting" /\ w < f

\* C10: insert is a pure append. insert(r) appends the line E<json of r> to
\* the log, leaving the lines before it as they were, and does not depend on
\* the prior content being readable: on a file that can be read and written,
\* insert does not fail, whatever the lines of the file are.
C10_InsertPureAppend ==
    \A i \in Issued :
        op[i] = "insert" =>
            /\ pc[i] = "written" => file = Append(pre[i], LineOf("E", JSONstringify(arg[i])))
            /\ (readable /\ writable) => pc[i] # "failed"

\* some non-blank line of the log carries a text that is not valid JSON
HasInvalidPayload(content) ==
    \E k \in 1..Len(content) : content[k].fmt = "corrupt"

\* the calls of find, insert and delete of exercise 15 issued so far
Calls15 == {i \in Issued : op[i] \in {"find", "insert", "delete"}}

C12_WitnessEmpty ==
    op[1] = "writeToFile" /\ pc[1] = "done" /\ arg[1] = << >> /\ Len(file) = 1

Before(x, y, sKey, sOrder) ==
    IF sOrder > 0 THEN Greater(Get(y, sKey), Get(x, sKey))
                  ELSE Greater(Get(x, sKey), Get(y, sKey))

\* seq sorted by sKey in direction sOrder, elements with equal values of
\* sKey in the order they have in seq
StableSort(seq, sKey, sOrder) ==
    LET n == Len(seq)
        p == CHOOSE q \in [1..n -> 1..n] :
                /\ \A i \in 1..n : \A j \in 1..n : i # j => q[i] # q[j]
                /\ \A i \in 1..n : \A j \in 1..n :
                      i < j => /\ ~Before(seq[q[j]], seq[q[i]], sKey, sOrder)
                               /\ ~Before(seq[q[i]], seq[q[j]], sKey, sOrder) => q[i] < q[j]
    IN [k \in 1..n |-> seq[p[k]]]

RECURSIVE StablePasses(_, _, _)
\* one stable pass per entry of sort, from the k-th on, in mapping order
StablePasses(seq, sort, k) ==
    IF k > Len(sort) THEN seq
    ELSE StablePasses(StableSort(seq, sort[k][1], sort[k][2]), sort, k + 1)

\* find has returned for options that sort and do not project
SortDone ==
    /\ op[1] = "options" /\ pc[1] = "done"
    /\ "sort" \in DOMAIN arg[1].options
    /\ "projection" \notin DOMAIN arg[1].options

\* C13: sort passes are stable. find applies one sort pass per field of
\* options.sort in mapping order, and each pass keeps two results with equal
\* values of the field in their prior order: the result is the list sorted by
\* the last-listed field, its ties ordered by the fields listed before it, the
\* remaining ties in log order.
C13_StableSortPasses ==
    SortDone => result[1] = StablePasses(arg[1].results, arg[1].options["sort"], 1)

\* find has returned for options with a projection
ProjectionDone ==
    op[1] = "options" /\ pc[1] = "done" /\ "projection" \in DOMAIN arg[1].options

\* the keys of a projection whose flag is truthy
Truthy(projection) ==
    {projection[j][1] : j \in {m \in 1..Len(projection) : projection[m][2] = TRUE}}

\* options without its projection
WithoutProjection(options) ==
    IF "sort" \in DOMAIN options THEN ("sort" :> options["sort"]) ELSE NoOptions

\* C14: projection shape. With options.projection every returned record has
\* exactly the fields whose flag is truthy (no other field appears, none of
\* them is dropped), with the values of the result it is made from, and the
\* results are as many and in the same order as without the projection.
C14_ProjectionShape ==
    ProjectionDone =>
        LET keys == Truthy(arg[1].options["projection"])
        IN /\ \A k \in 1..Len(result[1]) : DOMAIN result[1][k] = keys
           /\ \E r \in findOutcomes(arg[1].results, WithoutProjection(arg[1].options)) :
                 /\ Len(result[1]) = Len(r)
                 /\ \A k \in 1..Len(r) : \A key \in keys : result[1][k][key] = Get(r[k], key)

\* a projection with a falsy flag and a truthy one has been applied to
\* several results that differ in the field kept
C14_Witness ==
    /\ ProjectionDone
    /\ Truthy(arg[1].options["projection"]) = {"name"}
    /\ Len(arg[1].options["projection"]) > 1
    /\ Len(result[1]) > 1
    /\ result[1][1] # result[1][2]

RECURSIVE TreeMatches(_, _)
\* a record matches a predicate tree, as the claim reads the tree: the first
\* of $and, $or, $text the node carries decides, a node with none is a Query
TreeMatches(tree, data) ==
    LET keys == DOMAIN tree
    IN CASE "$and" \in keys ->
              \A child \in Range(tree["$and"]) : TreeMatches(child, data)
         [] "$and" \notin keys /\ "$or" \in keys ->
              \E child \in Range(tree["$or"]) : TreeMatches(child, data)
         [] keys \cap {"$and", "$or"} = {} /\ "$text" \in keys ->
              textPredicate(fullTextSearchFieldNames, tree["$text"], data)
         [] OTHER ->
              \A field \in keys : operatorToPredicate(tree[field], Get(data, field))

\* topLevelPredicate has returned
PredicateDone == op[1] = "topLevelPredicate" /\ pc[1] = "done"

\* C15: predicate tree evaluation. topLevelPredicate dispatches in the order
\* $and, $or, $text, plain Query (the first of them a node carries decides);
\* $and is true iff every child matches (none: true), $or iff some child
\* matches (none: false), a plain Query iff every field named in it passes its
\* operator (no field: true for every record).
C15_PredicateTree ==
    PredicateDone =>
        /\ result[1] = TreeMatches(arg[1].query, arg[1].data)
        /\ arg[1].query = ("$and" :> << >>) => result[1] = TRUE
        /\ arg[1].query = ("$or" :> << >>) => result[1] = FALSE
        /\ arg[1].query = EmptyObject => result[1] = TRUE

\* a node with $and and $or, whose $and list alone does not match the record
\* and whose $or list alone does, has been evaluated
C15_Witness ==
    /\ PredicateDone
    /\ {"$and", "$or"} \subseteq DOMAIN arg[1].query
    /\ ~TreeMatches(("$and" :> arg[1].query["$and"]), arg[1].data)
    /\ TreeMatches(("$or" :> arg[1].query["$or"]), arg[1].data)
    /\ Len(arg[1].query["$and"]) > 1

\* operatorToPredicate has returned
OperatorDone == op[1] = "operatorToPredicate" /\ pc[1] = "done"

\* field is one of the candidates of an $in list
Member(field, candidates) == \E c \in Range(candidates) : StrictEq(field, c)

\* C16 as stated: $eq is strict equality, $in membership by exact equality,
\* an operator keyed $lt or $gt is the numeric comparison for a number and
\* false for any other field value, an operator without recognized key is
\* false, and the first key present, in the order $eq, $lt, $gt, $in, decides.
C16_FirstKeyDecides ==
    OperatorDone =>
        LET q == arg[1].query
            f == arg[1].field
            keys == DOMAIN q
        IN result[1] =
             CASE "$eq" \in keys -> StrictEq(f, q["$eq"])
               [] "$eq" \notin keys /\ "$lt" \in keys ->
                    f.t = "number" /\ f.v < q["$lt"].v
               [] keys \cap {"$eq", "$lt"} = {} /\ "$gt" \in keys ->
                    f.t = "number" /\ f.v > q["$gt"].v
               [] keys \cap {"$eq", "$lt", "$gt"} = {} /\ "$in" \in keys ->
                    Member(f, q["$in"])
               [] OTHER -> FALSE

\* C16, amended: as stated for an operator with one recognized key or none;
\* with several keys the first branch that applies decides, in the order
\* $eq, $lt, $gt, $in, the branches of $lt and $gt applying to a number only:
\* for any other field value $lt and $gt are passed over, $in decides where
\* it is present, and the result is false where it is not.
C16_FirstBranchDecides ==
    OperatorDone =>
        LET q == arg[1].query
            f == arg[1].field
            keys == DOMAIN q
            numeric == f.t = "number"
        IN /\ "$eq" \in keys => result[1] = StrictEq(f, q["$eq"])
           /\ ("$eq" \notin keys /\ numeric /\ "$lt" \in keys)
                => result[1] = (f.v < q["$lt"].v)
           /\ (keys \cap {"$eq", "$lt"} = {} /\ numeric /\ "$gt" \in keys)
                => result[1] = (f.v > q["$gt"].v)
           /\ ("$eq" \notin keys /\ "$in" \in keys
                   /\ (~numeric \/ keys \cap {"$lt", "$gt"} = {}))
                => result[1] = Member(f, q["$in"])
           /\ (keys \cap {"$eq", "$in"} = {} /\ ~numeric) => result[1] = FALSE
           /\ keys \cap {"$eq", "$lt", "$gt", "$in"} = {} => result[1] = FALSE

\* an operator with $lt and $in has been applied to a string that is one of
\* the candidates of $in
C16_Witness ==
    /\ OperatorDone
    /\ {"$lt", "$in"} \subseteq DOMAIN arg[1].query
    /\ "$eq" \notin DOMAIN arg[1].query
    /\ arg[1].field.t = "string"
    /\ Member(arg[1].field, arg[1].query["$in"])

\* the string s occurs in text as a whole word, letter case ignored
OccursAsWord(s, text) ==
    \E i \in 1..(Len(text) - Len(s) + 1) :
        /\ \A k \in 1..Len(s) : Lower(text[i + k - 1]) = Lower(s[k])
        /\ i = 1 \/ ~IsWordChar(text[i - 1])
        /\ i + Len(s) - 1 = Len(text) \/ ~IsWordChar(text[i + Len(s)])

\* s occurs as a whole word in a configured full-text field of the record, the
\* field's value read as a string
OccursInFields(s, fieldNames, data) ==
    \E f \in Range(fieldNames) : OccursAsWord(s, StringOf(Get(data, f)))

\* the $text predicate has returned
TextDone == op[1] = "$text" /\ pc[1] = "done"

\* C17 as stated: {$text: s} matches a record iff s occurs as a whole word,
\* letter case ignored, in the string value of a configured full-text field;
\* other fields are not consulted; no record matches with no field configured.
C17_TextWholeWord ==
    TextDone =>
        /\ result[1] = OccursInFields(arg[1].text, arg[1].fieldNames, arg[1].data)
        /\ arg[1].fieldNames = << >> => result[1] = FALSE

\* a search string that is a word or words: it has no character with a
\* meaning in a regular expression and begins and ends with a word character
Literal(s) ==
    /\ Len(s) > 0
    /\ \A k \in 1..Len(s) : s[k] # "."
    /\ IsWordChar(s[1]) /\ IsWordChar(s[Len(s)])

\* C17, amended: for a search string s that is a word or words, {$text: s}
\* matches a record iff s occurs as a whole word, letter case ignored, in
\* the value, turned into a string, of a configured full-text field; other
\* fields are not consulted, and whatever s is, no record matches with no
\* field configured.
C17_TextLiteralWord ==
    TextDone =>
        /\ Literal(arg[1].text) =>
              result[1] = OccursInFields(arg[1].text, arg[1].fieldNames, arg[1].data)
        /\ arg[1].fieldNames = << >> => result[1] = FALSE

\* a word has been found, written in another letter case, in the second of
\* two configured fields and not in the first
C17_Witness ==
    /\ TextDone
    /\ result[1] = TRUE
    /\ Literal(arg[1].text)
    /\ Len(arg[1].fieldNames) = 2
    /\ ~OccursAsWord(arg[1].text, StringOf(Get(arg[1].data, arg[1].fieldNames[1])))
    /\ arg[1].text = S_CAT

\* the entries of the older log are the first entries of the newer one, with
\* the same payloads, and those tagged D are still tagged D
HistoryKept(older, newer) ==
    /\ Len(newer) >= Len(older)
    /\ \A k \in 1..Len(older) :
          /\ newer[k].data = older[k].data
          /\ older[k].type = "D" => newer[k].type = "D"

\* C18: log history is never erased or revived. Starting from a well-formed
\* log, no step of any interleaving of insert, delete and find calls removes
\* an entry, reorders entries or changes a payload (the sequence of payloads
\* only grows at its end), and none turns an entry tagged D into one tagged E.
C18_HistoryNeverErased ==
    [][WellFormed(file0) =>
          /\ WellFormed(file')
          /\ HistoryKept(readFromFile(file), readFromFile(file'))]_vars

\* after an insert and a delete the log has grown and an entry that was live
\* at the start is tombstoned, next to one that was tombstoned from the start
C18_Witness ==
    /\ WellFormed(file0)
    /\ LET first == readFromFile(file0)
           now   == readFromFile(file)
       IN /\ Len(now) > Len(first)
          /\ \E k \in 1..Len(first) : first[k].type = "E" /\ now[k].type = "D"
          /\ \E k \in 1..Len(first) : first[k].type = "D"

\* C19: single read inside delete. A delete call reads the log once, under
\* the gate; the find it runs to compute the records to tombstone uses that
\* read and does not read the file again.
C19_SingleReadInDelete ==
    \A d \in Issued : op[d] = "delete" => reads[d] <= 1

\* the calls that have called lock() and not (yet) their unlock function:
\* the call inside the gate, the calls waiting for it, and the calls that
\* failed inside the gate
Outstanding == {i \in MutatingCalls : pc[i] # "done"}

\* C20: Mutex counter. Every unlock function being called at most once (as
\* insert and delete do), _locks is the number of lock() calls whose unlock
\* function has not been called, it is never negative, isLocked() is true
\* exactly when that number is positive, and _locks is 0 once every caller
\* has unlocked.
C20_MutexCounter ==
    /\ _locks = Cardinality(Outstanding)
    /\ _locks >= 0
    /\ isLocked <=> Outstanding # {}
    /\ (\A i \in MutatingCalls : pc[i] = "done") => _locks = 0 /\ ~isLocked

\* one caller has unlocked, one is inside the gate and one waits for it
C20_Witness ==
    /\ \E i \in MutatingCalls : pc[i] = "done"
    /\ \E i \in MutatingCalls : InGate(i)
    /\ \E i \in MutatingCalls : pc[i] = "waiting"
    /\ _locks = 2

====
